---- MODULE Spec2Model ----
(***************************************************************************)
(* Model of the attachment PDF assembler: the merge stage                  *)
(* (src/src/pdf/pdf_merger.py, driven by src/src/merge_pdfs.py) and the    *)
(* legacy single-file script src/merge_pdfs.py.                            *)
(*                                                                         *)
(* A PDF document is a sequence of pages.  A page carries what the code    *)
(* reads from it: the features of its extracted text (kind, number, TOC    *)
(* rows) and its link annotations (a bag: the code never depends on the    *)
(* order of links).  Attachment numbers are character sequences, as in     *)
(* the code, so that float(), int(), isdigit() and substring search are    *)
(* modelled by what they do.                                               *)
(***************************************************************************)
EXTENDS Integers, Sequences, FiniteSets, Bags, TLC

(***************************************************************************)
(* Bounds of the model.                                                    *)
(***************************************************************************)
MaxPages == 2        \* pages of one attachment file: 1..MaxPages
MaxFaults == 1       \* attachments of a catalog that cannot be spliced
MaxTitlePages == 1   \* pages of the title file: 0 (no file)..MaxTitlePages
MaxForewordPages == 1 \* pages of the foreword file: 0 (no file)..MaxForewordPages
MaxTocPages == 2     \* pages the renderer gives the table of contents
MaxEntries == 77     \* rows of the spreadsheet handed to the TOC generator
MaxGenTitlePages == 2 \* pages of the title file handed to the TOC generator

(***************************************************************************)
(* Attachment numbers as text.                                             *)
(***************************************************************************)
Digits == {"0", "1", "2", "3", "4", "5", "6", "7", "8", "9"}

DigitVal(c) ==
  CASE c = "0" -> 0 [] c = "1" -> 1 [] c = "2" -> 2 [] c = "3" -> 3
    [] c = "4" -> 4 [] c = "5" -> 5 [] c = "6" -> 6 [] c = "7" -> 7
    [] c = "8" -> 8 [] c = "9" -> 9

NUM_1 == <<"1">>
NUM_1_5 == <<"1", ".", "5">>
NUM_2 == <<"2">>

\* the attachment numbers a catalog may use; "1" is a prefix of "1.5"
Numbers == {NUM_1, NUM_1_5, NUM_2}

NoNum == <<>>

\* str.isdigit()
IsDigit(s) == Len(s) > 0 /\ \A i \in 1..Len(s) : s[i] \in Digits

DotAt(s) == IF \E i \in 1..Len(s) : s[i] = "."
            THEN CHOOSE i \in 1..Len(s) : s[i] = "." /\ \A j \in 1..(i-1) : s[j] # "."
            ELSE 0

\* s.replace('.', '', 1)
ReplaceFirstDot(s) ==
  IF DotAt(s) = 0 THEN s
  ELSE SubSeq(s, 1, DotAt(s) - 1) \o SubSeq(s, DotAt(s) + 1, Len(s))

RECURSIVE DecimalValue(_)
DecimalValue(s) ==
  IF Len(s) = 0 THEN 0
  ELSE 10 * DecimalValue(SubSeq(s, 1, Len(s) - 1)) + DigitVal(s[Len(s)])

\* float(s), in hundredths (two fractional digits are kept)
FloatScale == 100

FloatOf(s) ==
  IF DotAt(s) = 0 THEN FloatScale * DecimalValue(s)
  ELSE LET ip == SubSeq(s, 1, DotAt(s) - 1)
           fp == SubSeq(s, DotAt(s) + 1, Len(s))
           f2 == SubSeq(fp \o <<"0", "0">>, 1, 2)
       IN  FloatScale * DecimalValue(ip) + DecimalValue(f2)

\* float('inf')
Infinity == 1000000

\* lambda x: float(x) if x.replace('.', '', 1).isdigit() else float('inf')
SortKey(s) == IF IsDigit(ReplaceFirstDot(s)) THEN FloatOf(s) ELSE Infinity

\* int(x) of the legacy script raises ValueError unless x is all digits
IntRaises(s) == ~IsDigit(s)

IntOf(s) == DecimalValue(s)

\* "Attachment <a>" is a substring of the line "Attachment <b>"
IsPrefix(a, b) == Len(a) <= Len(b) /\ SubSeq(b, 1, Len(a)) = a

\* sorted(S, key=SortKey): the numbers of S in ascending key order
RECURSIVE SortedNums(_)
SortedNums(S) ==
  IF S = {} THEN <<>>
  ELSE LET m == CHOOSE x \in S : \A y \in S : SortKey(x) <= SortKey(y)
       IN  <<m>> \o SortedNums(S \ {m})

\* sorted(S, key=int) of the legacy script
RECURSIVE SortedNumsInt(_)
SortedNumsInt(S) ==
  IF S = {} THEN <<>>
  ELSE LET m == CHOOSE x \in S : \A y \in S : IntOf(x) <= IntOf(y)
       IN  <<m>> \o SortedNumsInt(S \ {m})

Min(a, b) == IF a <= b THEN a ELSE b

(***************************************************************************)
(* The spreadsheet cells as openpyxl hands them over: an int, a float (in  *)
(* hundredths), a text, or None.                                           *)
(***************************************************************************)
IntCell(v) == [type |-> "int", v |-> v, s |-> <<>>]

FloatCell(h) == [type |-> "float", v |-> h, s |-> <<>>]

StrCell(s) == [type |-> "str", v |-> 0, s |-> s]

NoneCell == [type |-> "none", v |-> 0, s |-> <<>>]

DigitChar(d) ==
  CASE d = 0 -> "0" [] d = 1 -> "1" [] d = 2 -> "2" [] d = 3 -> "3"
    [] d = 4 -> "4" [] d = 5 -> "5" [] d = 6 -> "6" [] d = 7 -> "7"
    [] d = 8 -> "8" [] d = 9 -> "9"

\* str(i) of a non-negative int
RECURSIVE NumText(_)
NumText(i) ==
  IF i < 10 THEN <<DigitChar(i)>> ELSE NumText(i \div 10) \o <<DigitChar(i % 10)>>

\* str(x) of a non-negative float that is not an integer
FloatText(h) ==
  LET f == h % FloatScale
  IN  NumText(h \div FloatScale) \o <<".">>
        \o (IF f % 10 = 0 THEN <<DigitChar(f \div 10)>>
            ELSE <<DigitChar(f \div 10), DigitChar(f % 10)>>)

\* float.is_integer()
IsIntegerFloat(c) == c.type = "float" /\ c.v % FloatScale = 0

\* int(x) of a float in hundredths: truncation toward zero
TruncFloat(h) == IF h >= 0 THEN h \div FloatScale ELSE -((-h) \div FloatScale)

\* the text without a leading sign
Unsigned(s) == IF Len(s) > 0 /\ s[1] \in {"-", "+"} THEN Tail(s) ELSE s

\* float(s) of a text does not raise ValueError
ParsesAsFloat(s) == IsDigit(ReplaceFirstDot(Unsigned(s)))

StrFloat(s) ==
  IF Len(s) > 0 /\ s[1] = "-" THEN -FloatOf(Tail(s)) ELSE FloatOf(Unsigned(s))

\* excel_reader.normalize_attachment_number
normalize_attachment_number(c) ==
  IF IsIntegerFloat(c) THEN NumText(c.v \div FloatScale)
  ELSE IF c.type = "int" THEN NumText(c.v)
  ELSE IF c.type = "float" THEN FloatText(c.v)
  ELSE c.s

\* excel_reader.normalize_page_count
normalize_page_count(c) ==
  IF IsIntegerFloat(c) THEN c.v \div FloatScale
  ELSE IF c.type # "int"
       THEN IF c.type = "float" THEN TruncFloat(c.v)
            ELSE IF c.type = "str" /\ ParsesAsFloat(c.s) THEN TruncFloat(StrFloat(c.s))
            ELSE 1
       ELSE c.v

(***************************************************************************)
(* Pages and links.                                                        *)
(***************************************************************************)
NoLinks == EmptyBag

\* the clickable region: the TOC row it lies on, and how it was obtained
\* ("anchor": the rectangle of the rendered <a>, "search": search_for)
Rect(row, by) == [row |-> row, by |-> by]

\* the row "Table of Contents" that the TOC has for itself
TOC_ROW == <<"T">>

UriLink(scheme, id, rect) ==
  [kind |-> "uri", scheme |-> scheme, id |-> id, rect |-> rect, page |-> -1]

\* {'kind': fitz.LINK_GOTO, 'from': rect, 'page': target_page, ...}
GotoLink(rect, target) ==
  [kind |-> "goto", scheme |-> "", id |-> NoNum, rect |-> rect, page |-> target]

\* 'uri' in link and link['uri'].startswith('#cover-')
IsCoverUri(l) == l.kind = "uri" /\ l.scheme = "#cover-"

Page(kind, num, idx, rows, adj, links) ==
  [kind |-> kind, num |-> num, idx |-> idx, rows |-> rows, adj |-> adj,
   links |-> links]

\* the page of a document that p is, whatever links it carries now
PageId(p) == <<p.kind, p.num, p.idx>>

\* "Table of Contents" in text
HasTocHeading(p) == p.kind = "toc" /\ p.idx = 1

\* "Attachment " in text
HasAttachmentWord(p) == p.kind = "cover" \/ (p.kind = "toc" /\ Len(p.rows) > 0)

\* "Page " in text: the "Page <n>" line of a cover page
HasPageSpace(p) == p.kind = "cover"

\* "Page" in text: a cover page, or the "Title Page" row of the TOC
HasPageWord(p, hasTitle) ==
  p.kind = "cover" \/ (p.kind = "toc" /\ p.idx = 1 /\ hasTitle)

\* f"Attachment {id}" in text.split('\n')[:5]: the line of a cover page, or
\* the first cell of one of the first rows of a TOC continuation page
HasAttachmentLine(p, id) ==
  \/ p.kind = "cover" /\ p.num = id
  \/ p.kind = "toc" /\ p.idx > 1 /\ ~p.adj
       /\ \E i \in 1..Len(p.rows) : 3 * (i - 1) + 1 <= 5 /\ p.rows[i] = id

\* re.search(r'Attachment\s+\d+\s+\d+\s*$', text, re.MULTILINE): a row whose
\* number is all digits and is directly followed by its page number
HasRowShape(p) ==
  p.kind = "toc" /\ p.adj /\ \E i \in 1..Len(p.rows) : IsDigit(p.rows[i])

\* text.split("Attachment ")[1].split()[0].rstrip(":")
FirstAttachmentToken(p) == IF p.kind = "cover" THEN p.num ELSE p.rows[1]

\* the longest prefix of s that (\d+\.?\d*) matches
RECURSIVE DigitRun(_)
DigitRun(s) ==
  IF Len(s) > 0 /\ s[1] \in Digits THEN 1 + DigitRun(Tail(s)) ELSE 0

CapturedNumber(s) ==
  LET a == DigitRun(s)
      rest == SubSeq(s, a + 1, Len(s))
      b == IF Len(rest) > 0 /\ rest[1] = "."
           THEN 1 + DigitRun(Tail(rest)) ELSE 0
  IN  SubSeq(s, 1, a + b)

\* re.findall(r"Attachment\s+(\d+\.?\d*)", line) over the lines of the page
PotentialAttachments(p) ==
  IF p.kind = "cover" THEN {CapturedNumber(p.num)} \ {<<>>}
  ELSE IF p.kind = "toc"
       THEN {CapturedNumber(p.rows[i]) : i \in 1..Len(p.rows)} \ {<<>>}
       ELSE {}

\* page.search_for(f"Attachment {id}"): the rows of the hits, in page order
SearchFor(p, id) ==
  IF p.kind = "toc"
  THEN SelectSeq(p.rows, LAMBDA r : IsPrefix(id, r))
  ELSE IF p.kind = "cover" /\ IsPrefix(id, p.num) THEN <<p.num>> ELSE <<>>

(***************************************************************************)
(* The inputs of a run: the catalog, the files on disk and the rendered    *)
(* TOC/cover document (OUTPUT_PDF).                                        *)
(***************************************************************************)
\* the 'Page count' column of the spreadsheet for each number
DeclaredPages(n) == IF n = NUM_1_5 THEN 2 ELSE 1

\* file: "ok" (pages = len(fitz.open(path))), "missing" (os.path.exists is
\* false), "unreadable" (fitz.open raises), "none" (no 'Filename Reference')
FileOptions ==
  [file : {"ok"}, pages : 1..MaxPages]
    \cup [file : {"missing", "unreadable", "none"}, pages : {1}]

Orders(S) ==
  {s \in [1..Cardinality(S) -> S] : \A i, j \in 1..Cardinality(S) : s[i] = s[j] => i = j}

Catalogs ==
  UNION {
    UNION {
      {[i \in 1..Cardinality(S) |->
          [num |-> ord[i], file |-> files[ord[i]].file, pages |-> files[ord[i]].pages,
           declared |-> DeclaredPages(ord[i])]] : ord \in Orders(S)}
      : files \in {f \in [S -> FileOptions] :
                     Cardinality({n \in S : f[n].file # "ok"}) <= MaxFaults}}
    : S \in (SUBSET Numbers) \ {{}}}

CatalogNums(cat) == {cat[i].num : i \in 1..Len(cat)}

\* the rows of TOC page t, when n rows are laid out on T pages
RowsOfPage(rows, T, t) ==
  LET n == Len(rows)
      per == (n + T - 1) \div T
  IN  SubSeq(rows, (t - 1) * per + 1, Min(t * per, n))

\* generate_html and add_title_page_to_toc: the title pages and the foreword
\* pages (only when the title file exists), the TOC pages, then one cover
\* page per attachment in ascending number order.  kept: the rows whose
\* link annotation is in the document
BuildTocPdf(cat, tp, fp, T, adj, kept) ==
  LET rows == SortedNums(CatalogNums(cat))
      rowLinks(rs) ==
        SetToBag({UriLink("#cover-", rs[i], Rect(rs[i], "anchor")) :
                    i \in {j \in 1..Len(rs) : rs[j] \in kept}})
      selfLink(t) ==
        IF t = 1 /\ TOC_ROW \in kept
        THEN SetToBag({UriLink("#table-of-contents", NoNum, Rect(TOC_ROW, "anchor"))})
        ELSE EmptyBag
      front == IF tp = 0 THEN <<>>
               ELSE [i \in 1..tp |-> Page("title", NoNum, i, <<>>, FALSE, NoLinks)]
                    \o [i \in 1..fp |-> Page("foreword", NoNum, i, <<>>, FALSE, NoLinks)]
      toc == [t \in 1..T |->
                Page("toc", NoNum, t, RowsOfPage(rows, T, t), adj,
                     rowLinks(RowsOfPage(rows, T, t)) (+) selfLink(t))]
      covers == [i \in 1..Len(rows) |-> Page("cover", rows[i], 1, <<>>, FALSE, NoLinks)]
  IN  front \o toc \o covers

\* the pages of the attachment file of number n
AttachmentPdf(n, k) == [j \in 1..k |-> Page("content", n, j, <<>>, FALSE, NoLinks)]

(***************************************************************************)
(* State.                                                                  *)
(***************************************************************************)
VARIABLES
  catalog,            \* attachments: the rows read from the spreadsheet
  titlePages,         \* page count of TITLE_PAGE, 0 when the file does not exist
  forewordPages,      \* page count of FOREWORD_PAGE, 0 when it does not exist
  toc_pdf,            \* fitz.open(OUTPUT_PDF)
  pc,                 \* position in merge_pdfs
  attachment_map,
  toc_page_index,
  toc_page_indices,
  cover_page_indices,
  todo,               \* the rest of the sorted loop of insert_attachments
  merged_pdf,
  page_mapping,
  bookmark_positions,
  current_page,
  links_fixed,
  outline,            \* get_toc() of MERGED_PDF
  exit_status,        \* what main returns; -1 while running
  attachments,        \* the rows handed to generate_toc_pdf
  gen_pc,             \* position in the TOC generator
  estimate,           \* what calculate_page_map computed
  final_pdf,          \* the document generate_toc_pdf holds
  toc_bookmarks,      \* the list toc_generator.create_bookmarks hands to set_toc
  output_pdf,         \* the file OUTPUT_PDF: its pages and its outline
  inline_estimate,    \* what generate_toc_pdf computed for itself
  files,              \* MERGED_PDF and the temporary files on disk
  errors              \* the calls that have raised in this run

vars == <<catalog, titlePages, forewordPages, toc_pdf, pc, attachment_map,
          toc_page_index, toc_page_indices, cover_page_indices, todo,
          merged_pdf, page_mapping, bookmark_positions, current_page,
          links_fixed, outline, exit_status,
          attachments, gen_pc, estimate, final_pdf, toc_bookmarks, output_pdf,
          inline_estimate, files, errors>>

disk_vars == <<files, errors>>

\* MERGED_PDF: "old" (what was there before the run, if anything), "new" (the
\* complete document of this run), "partial" (a write to it was cut short);
\* the other fields: whether the temporary file exists
NoFiles ==
  [MERGED_PDF |-> "old", temp_merged_file |-> FALSE, temp_final_file |-> FALSE,
   tmp |-> FALSE]

gen_vars == <<attachments, gen_pc, estimate, final_pdf, toc_bookmarks, output_pdf,
              inline_estimate>>

\* OUTPUT_PDF has not been written
NoOutput == [pages |-> <<>>, toc |-> <<>>]

inputs == <<catalog, titlePages, forewordPages, toc_pdf>>

NoEstimate == [toc_pages |-> 0, start_page |-> 0, page_map |-> <<>>]

\* the TOC generator is not part of a merge run
GenIdle ==
  /\ attachments = <<>>
  /\ gen_pc = "idle"
  /\ estimate = NoEstimate
  /\ final_pdf = <<>>
  /\ toc_bookmarks = <<>>
  /\ output_pdf = NoOutput
  /\ inline_estimate = NoEstimate

Init ==
  /\ catalog \in Catalogs
  /\ titlePages \in 0..MaxTitlePages
  /\ forewordPages \in 0..MaxForewordPages
  /\ \E T \in 1..Min(MaxTocPages, Len(catalog)) :
       \E adj \in (IF T = 1 THEN {FALSE} ELSE BOOLEAN) :
         \E kept \in SUBSET (CatalogNums(catalog) \cup {TOC_ROW}) :
           toc_pdf = BuildTocPdf(catalog, titlePages, forewordPages, T, adj, kept)
  /\ pc = "start"
  /\ attachment_map = <<>>
  /\ toc_page_index = -1
  /\ toc_page_indices = <<>>
  /\ cover_page_indices = <<>>
  /\ todo = <<>>
  /\ merged_pdf = <<>>
  /\ page_mapping = <<>>
  /\ bookmark_positions = <<>>
  /\ current_page = 0
  /\ links_fixed = 0
  /\ outline = <<>>
  /\ exit_status = -1
  /\ files = NoFiles
  /\ errors = {}
  /\ GenIdle

(***************************************************************************)
(* Position Resolver: locate_toc_page, locate_cover_pages.                 *)
(***************************************************************************)
\* positions are 0-based as in the code; doc[i + 1] is the page at index i
PageAt(doc, i) == doc[i + 1]

PageCount(doc) == Len(doc)

\* build_attachment_map: number -> catalog row (a later row replaces an
\* earlier one with the same number)
build_attachment_map(cat) ==
  [n \in CatalogNums(cat) |->
     cat[CHOOSE i \in 1..Len(cat) :
           cat[i].num = n /\ \A j \in (i+1)..Len(cat) : cat[j].num # n]]

\* locate_toc_page: (first_toc_page, toc_page_indices)
locate_toc_page(doc) ==
  LET isToc(i) ==
        \/ HasTocHeading(PageAt(doc, i))
        \/ /\ i = 2
           /\ HasAttachmentWord(PageAt(doc, i))
           /\ HasRowShape(PageAt(doc, i))
      all == SelectSeq([k \in 1..PageCount(doc) |-> k - 1], isToc)
      indices == IF Len(all) > 2 THEN SubSeq(all, 1, 2) ELSE all
  IN  [first |-> IF Len(indices) > 0 THEN indices[1] ELSE -1,
       indices |-> indices]

\* the pages that locate_cover_pages records for number id
CoverMatches(doc, id, hasTitle) ==
  {i \in 0..(PageCount(doc) - 1) :
     /\ ~HasTocHeading(PageAt(doc, i))
     /\ PotentialAttachments(PageAt(doc, i)) # {}
     /\ HasPageWord(PageAt(doc, i), hasTitle)
     /\ HasAttachmentLine(PageAt(doc, i), id)}

Max(S) == CHOOSE x \in S : \A y \in S : y <= x

\* locate_cover_pages: number -> page index; the pages are scanned in
\* ascending order and a later match is assigned over an earlier one
locate_cover_pages(doc, amap, hasTitle) ==
  [id \in {n \in DOMAIN amap : CoverMatches(doc, n, hasTitle) # {}} |->
     Max(CoverMatches(doc, id, hasTitle))]

(***************************************************************************)
(* Document Assembler: insert_attachments.                                 *)
(***************************************************************************)
\* an insertion in front of the page at pos - 1
InsertPdf_before(doc, pos, pages) ==
  SubSeq(doc, 1, pos - 1) \o pages \o SubSeq(doc, pos, Len(doc))

\* an insertion that puts the attachment's pages in twice
InsertPdf_twice(doc, pos, pages) ==
  SubSeq(doc, 1, pos) \o pages \o pages \o SubSeq(doc, pos + 1, Len(doc))

\* merged_pdf.insert_pdf(pages, start_at=pos)
InsertPdf(doc, pos, pages) ==
  SubSeq(doc, 1, pos) \o pages \o SubSeq(doc, pos + 1, Len(doc))

\* no shift: every position stays the estimate made before the splice
ShiftPositions_none(positions, insert_pos, attachment_pages) ==
  positions

\* a shift that leaves the page at insert_pos itself where it was
ShiftPositions_after(positions, insert_pos, attachment_pages) ==
  [x \in DOMAIN positions |->
     IF positions[x] > insert_pos
     THEN positions[x] + attachment_pages
     ELSE positions[x]]

\* for orig_page in page_mapping: if page_mapping[orig_page] >= insert_pos:
\*     page_mapping[orig_page] += attachment_pages
ShiftPositions(positions, insert_pos, attachment_pages) ==
  [x \in DOMAIN positions |->
     IF positions[x] >= insert_pos
     THEN positions[x] + attachment_pages
     ELSE positions[x]]

\* the state of insert_attachments
AssemblerState(doc, pm, bp, cur) ==
  [merged_pdf |-> doc, page_mapping |-> pm, bookmark_positions |-> bp,
   current_page |-> cur]

\* a loop body that splices a page after the cover page whatever the file is
SpliceStep_blank(st, amap, covers, attachment_num) ==
  LET insert_pos == st.page_mapping[covers[attachment_num]] + 1
  IN  AssemblerState(
        InsertPdf(st.merged_pdf, insert_pos, AttachmentPdf(attachment_num, 1)),
        ShiftPositions(st.page_mapping, insert_pos, 1),
        ShiftPositions((attachment_num :> insert_pos - 1) @@ st.bookmark_positions,
                       insert_pos, 1),
        st.current_page + 1)

\* insert_attachments: the body of the loop, for one (attachment_num, page_idx)
SpliceStep(st, amap, covers, attachment_num) ==
  LET page_idx == covers[attachment_num]
      attachment == amap[attachment_num]
      cover_page_pos == st.page_mapping[page_idx]
      insert_pos == cover_page_pos + 1
      attachment_pages == attachment.pages
      recorded == (attachment_num :> cover_page_pos) @@ st.bookmark_positions
  IN  IF attachment_num \notin DOMAIN amap \/ attachment.file = "none"
      THEN st
      ELSE IF attachment.file \in {"missing", "unreadable"}
      THEN [st EXCEPT !.bookmark_positions = recorded]
      ELSE AssemblerState(
             InsertPdf(st.merged_pdf, insert_pos,
                       AttachmentPdf(attachment_num, attachment_pages)),
             ShiftPositions(st.page_mapping, insert_pos, attachment_pages),
             ShiftPositions(recorded, insert_pos, attachment_pages),
             st.current_page + attachment_pages)

\* the whole loop, over the numbers in the order given
RECURSIVE SpliceAll(_, _, _, _)
SpliceAll(st, amap, covers, order) ==
  IF order = <<>> THEN st
  ELSE SpliceAll(SpliceStep(st, amap, covers, Head(order)), amap, covers, Tail(order))

\* insert_attachments: the first loop copies every page of the TOC document
CopiedToc(doc) ==
  AssemblerState(doc, [i \in 0..(PageCount(doc) - 1) |-> i], <<>>, PageCount(doc))

(***************************************************************************)
(* Reference Patcher: fix_links, create_bookmarks.                         *)
(***************************************************************************)
\* fix_links: the TOC pages, looked for among the first five pages
FindTocPages(doc) ==
  LET cand == {i \in 0..(Min(5, PageCount(doc)) - 1) : HasTocHeading(PageAt(doc, i))}
      i == CHOOSE x \in cand : \A y \in cand : x <= y
  IN  IF cand = {} THEN <<>>
      ELSE IF /\ i + 1 < PageCount(doc)
              /\ HasAttachmentWord(PageAt(doc, i + 1))
              /\ ~HasPageSpace(PageAt(doc, i + 1))
           THEN <<i, i + 1>>
           ELSE <<i>>

RECURSIVE BagSum(_, _)
BagSum(B, S) ==
  IF S = {} THEN 0
  ELSE LET x == CHOOSE y \in S : TRUE IN B[x] + BagSum(B, S \ {x})

\* the '#cover-<n>' links of a page whose n has a recorded position
Fixable(links, positions) ==
  {l \in BagToSet(links) : IsCoverUri(l) /\ l.id \in DOMAIN positions}

\* insert_link(new_link) without delete_link(link)
ReplaceCoverLinks_keep(links, positions) ==
  LET new == {GotoLink(l.rect, positions[l.id]) : l \in Fixable(links, positions)}
  IN  links (+) [g \in new |->
                   BagSum(links, {l \in Fixable(links, positions) :
                                    GotoLink(l.rect, positions[l.id]) = g})]

\* delete_link(link) for every '#cover-' link, insert_link(new_link) only
\* for those with a recorded position
ReplaceCoverLinks_drop(links, positions) ==
  LET kept == {l \in BagToSet(links) : ~IsCoverUri(l) \/ l \in Fixable(links, positions)}
      fix(l) == IF l \in Fixable(links, positions)
                THEN GotoLink(l.rect, positions[l.id]) ELSE l
      image == {fix(l) : l \in kept}
  IN  [g \in image |-> BagSum(links, {l \in kept : fix(l) = g})]

\* delete_link(link); insert_link(new_link) for every fixable link
ReplaceCoverLinks(links, positions) ==
  LET fix(l) == IF l \in Fixable(links, positions)
                THEN GotoLink(l.rect, positions[l.id]) ELSE l
      image == {fix(l) : l \in BagToSet(links)}
  IN  [g \in image |-> BagSum(links, {l \in BagToSet(links) : fix(l) = g})]

\* the numbers of a TOC page for which fix_links creates a link
Synthesized(p, positions) ==
  {a \in PotentialAttachments(p) \cap DOMAIN positions : SearchFor(p, a) # <<>>}

\* insert_link of a new link on rects[0] for every such number
RECURSIVE SynthesizedLinks(_, _, _)
SynthesizedLinks(p, positions, S) ==
  IF S = {} THEN EmptyBag
  ELSE LET a == CHOOSE x \in S : TRUE
       IN  SetToBag({GotoLink(Rect(SearchFor(p, a)[1], "search"), positions[a])})
             (+) SynthesizedLinks(p, positions, S \ {a})

InSeq(x, s) == \E i \in 1..Len(s) : s[i] = x

\* fix_links: the document it leaves and the count it returns
fix_links(doc, positions) ==
  LET toc_pages == FindTocPages(doc)
      fixPage(i) ==
        LET p == PageAt(doc, i)
        IN  IF InSeq(i, toc_pages)
            THEN [p EXCEPT !.links =
                    ReplaceCoverLinks(p.links, positions)
                      (+) SynthesizedLinks(p, positions, Synthesized(p, positions))]
            ELSE [p EXCEPT !.links = ReplaceCoverLinks(p.links, positions)]
      count(i) ==
        LET p == PageAt(doc, i)
        IN  BagSum(p.links, Fixable(p.links, positions))
              + (IF InSeq(i, toc_pages)
                 THEN Cardinality(Synthesized(p, positions)) ELSE 0)
      total[n \in 0..PageCount(doc)] ==
        IF n = 0 THEN 0 ELSE total[n - 1] + count(n - 1)
  IN  [doc |-> [k \in 1..PageCount(doc) |-> fixPage(k - 1)],
       links_fixed |-> total[PageCount(doc)]]

OutlineEntry(level, label, num, i, page) ==
  [level |-> level, label |-> label, num |-> num, i |-> i, page |-> page]

\* create_bookmarks: page_info, the direct scan from index 2 on; a later page
\* with the same number is assigned over an earlier one
ScanPageInfo(doc) ==
  LET hits == {i \in 2..(PageCount(doc) - 1) :
                 HasAttachmentWord(PageAt(doc, i)) /\ HasPageSpace(PageAt(doc, i))}
      nums == {FirstAttachmentToken(PageAt(doc, i)) : i \in hits}
  IN  [n \in nums |-> Max({i \in hits : FirstAttachmentToken(PageAt(doc, i)) = n})]

\* create_bookmarks: the list handed to set_toc (1-based page numbers)
create_bookmarks(doc, indices, amap) ==
  LET title == <<OutlineEntry(1, "Title Page", NoNum, 0, 1)>>
      toc == IF Len(indices) > 0
             THEN <<OutlineEntry(1, "Table of Contents", NoNum, 0, indices[1] + 1)>>
                  \o [i \in 1..(Len(indices) - 1) |->
                        OutlineEntry(2, "Table of Contents (continued)", NoNum, i,
                                     indices[i + 1] + 1)]
             ELSE <<OutlineEntry(1, "Table of Contents", NoNum, 0, 2)>>
      page_info == ScanPageInfo(doc)
      order == SortedNums(DOMAIN page_info)
      atts == [k \in 1..Len(order) |->
                 OutlineEntry(1,
                   IF order[k] \in DOMAIN amap THEN "Attachment: Title" ELSE "Attachment",
                   order[k], 0, page_info[order[k]] + 1)]
  IN  title \o toc \o atts

\* merge_pdfs: whether the check of the final PDF decides to fix links again
LinksMissing(doc, positions) ==
  LET toc_pages == FindTocPages(doc)
      nlinks(i) == BagCardinality(PageAt(doc, toc_pages[i]).links)
      entries(i) ==
        Cardinality(PotentialAttachments(PageAt(doc, toc_pages[i])) \cap DOMAIN positions)
      total_links[n \in 0..Len(toc_pages)] ==
        IF n = 0 THEN 0 ELSE total_links[n - 1] + nlinks(n)
      expected_links[n \in 0..Len(toc_pages)] ==
        IF n = 0 THEN 0 ELSE expected_links[n - 1] + entries(n)
  IN  \/ \E i \in 1..Len(toc_pages) : nlinks(i) < entries(i)
      \/ total_links[Len(toc_pages)] < expected_links[Len(toc_pages)]

(***************************************************************************)
(* merge_pdfs of src/src/pdf/pdf_merger.py, step by step.                  *)
(***************************************************************************)
\* merge_pdfs up to the call of insert_attachments
LocatePages ==
  /\ pc = "start"
  /\ attachment_map' = build_attachment_map(catalog)
  /\ toc_page_index' = locate_toc_page(toc_pdf).first
  /\ toc_page_indices' = locate_toc_page(toc_pdf).indices
  /\ cover_page_indices' =
       locate_cover_pages(toc_pdf, build_attachment_map(catalog), titlePages > 0)
  /\ pc' = "copy"
  /\ UNCHANGED <<disk_vars, gen_vars, inputs, todo, merged_pdf, page_mapping, bookmark_positions,
                 current_page, links_fixed, outline, exit_status>>

\* insert_attachments: the first loop, and the sort that heads the second
CopyTocPages ==
  /\ pc = "copy"
  /\ merged_pdf' = CopiedToc(toc_pdf).merged_pdf
  /\ page_mapping' = CopiedToc(toc_pdf).page_mapping
  /\ current_page' = CopiedToc(toc_pdf).current_page
  /\ bookmark_positions' = CopiedToc(toc_pdf).bookmark_positions
  /\ todo' = SortedNums(DOMAIN cover_page_indices)
  /\ pc' = "splice"
  /\ UNCHANGED <<disk_vars, gen_vars, inputs, attachment_map, toc_page_index, toc_page_indices,
                 cover_page_indices, links_fixed, outline, exit_status>>

\* insert_attachments: one iteration of the loop over the sorted cover pages
InsertAttachment ==
  /\ pc = "splice"
  /\ todo # <<>>
  /\ LET st == SpliceStep(AssemblerState(merged_pdf, page_mapping,
                                         bookmark_positions, current_page),
                          attachment_map, cover_page_indices, Head(todo))
     IN  /\ merged_pdf' = st.merged_pdf
         /\ page_mapping' = st.page_mapping
         /\ bookmark_positions' = st.bookmark_positions
         /\ current_page' = st.current_page
  /\ todo' = Tail(todo)
  /\ UNCHANGED <<disk_vars, gen_vars, inputs, pc, attachment_map, toc_page_index, toc_page_indices,
                 cover_page_indices, links_fixed, outline, exit_status>>

\* merge_pdfs: links_fixed = fix_links(merged_pdf, bookmark_positions)
FixLinks ==
  /\ pc = "splice"
  /\ todo = <<>>
  /\ merged_pdf' = fix_links(merged_pdf, bookmark_positions).doc
  /\ links_fixed' = fix_links(merged_pdf, bookmark_positions).links_fixed
  /\ pc' = "save"
  /\ UNCHANGED <<disk_vars, gen_vars, inputs, attachment_map, toc_page_index, toc_page_indices,
                 cover_page_indices, todo, page_mapping, bookmark_positions,
                 current_page, outline, exit_status>>

\* merge_pdfs: save to the temporary file, reopen, create_bookmarks
CreateBookmarks ==
  /\ pc = "save"
  /\ outline' = create_bookmarks(merged_pdf, toc_page_indices, attachment_map)
  /\ files' = [files EXCEPT !.temp_merged_file = TRUE, !.MERGED_PDF = "new"]
  /\ pc' = "check"
  /\ UNCHANGED <<errors, gen_vars, inputs, attachment_map, toc_page_index, toc_page_indices,
                 cover_page_indices, todo, merged_pdf, page_mapping,
                 bookmark_positions, current_page, links_fixed, exit_status>>

\* merge_pdfs: the check of the final PDF, the second fix_links when links
\* are missing; main returns 0
CheckFinalLinks ==
  /\ pc = "check"
  /\ IF LinksMissing(merged_pdf, bookmark_positions)
     THEN /\ merged_pdf' = fix_links(merged_pdf, bookmark_positions).doc
          /\ links_fixed' = fix_links(merged_pdf, bookmark_positions).links_fixed
     ELSE UNCHANGED <<merged_pdf, links_fixed>>
  /\ files' = [files EXCEPT !.temp_merged_file = FALSE]
  /\ exit_status' = 0
  /\ pc' = "done"
  /\ UNCHANGED <<errors, gen_vars, inputs, attachment_map, toc_page_index, toc_page_indices,
                 cover_page_indices, todo, page_mapping, bookmark_positions,
                 current_page, outline>>

\* the Reference Patcher applied once more to the finished document:
\* fix_links, then the outline rebuilt by create_bookmarks
PatchAgain ==
  /\ pc = "done"
  /\ merged_pdf' = fix_links(merged_pdf, bookmark_positions).doc
  /\ links_fixed' = fix_links(merged_pdf, bookmark_positions).links_fixed
  /\ outline' = create_bookmarks(fix_links(merged_pdf, bookmark_positions).doc,
                                 toc_page_indices, attachment_map)
  /\ pc' = "patched_again"
  /\ UNCHANGED <<disk_vars, gen_vars, inputs, attachment_map, toc_page_index, toc_page_indices,
                 cover_page_indices, todo, page_mapping, bookmark_positions,
                 current_page, exit_status>>

(***************************************************************************)
(* merge_pdfs and main of the legacy script src/merge_pdfs.py.             *)
(***************************************************************************)
\* the link pass of the legacy script: existing '#cover-' links only
legacy_fix_links(doc, positions) ==
  [k \in 1..PageCount(doc) |->
     [doc[k] EXCEPT !.links = ReplaceCoverLinks(doc[k].links, positions)]]

\* the outline of the legacy script (0-based page numbers, no Title entry)
legacy_outline(st, first_toc, amap) ==
  LET toc == IF first_toc >= 0 /\ first_toc \in DOMAIN st.page_mapping
             THEN <<OutlineEntry(1, "Table of Contents", NoNum, 0,
                                 st.page_mapping[first_toc])>>
             ELSE <<>>
      order == SelectSeq(SortedNumsInt(DOMAIN st.bookmark_positions),
                         LAMBDA n : n \in DOMAIN amap)
      atts == [k \in 1..Len(order) |->
                 OutlineEntry(1, "Attachment: Title", order[k], 0,
                              st.bookmark_positions[order[k]])]
  IN  toc \o atts

\* sorted(cover_page_indices.items(), key=lambda x: int(x[0])) raises
LegacySortRaises(covers) == \E n \in DOMAIN covers : IntRaises(n)

LegacyMerge ==
  /\ pc = "start"
  /\ LET amap == build_attachment_map(catalog)
         first_toc == locate_toc_page(toc_pdf).first
         covers == locate_cover_pages(toc_pdf, amap, titlePages > 0)
         copied == CopiedToc(toc_pdf)
         st == SpliceAll(copied, amap, covers, SortedNumsInt(DOMAIN covers))
     IN  /\ attachment_map' = amap
         /\ toc_page_index' = first_toc
         /\ cover_page_indices' = covers
         /\ IF LegacySortRaises(covers)
            THEN /\ merged_pdf' = copied.merged_pdf
                 /\ page_mapping' = copied.page_mapping
                 /\ bookmark_positions' = copied.bookmark_positions
                 /\ current_page' = copied.current_page
                 /\ outline' = <<>>
                 /\ files' = files
                 /\ exit_status' = 1
            ELSE /\ merged_pdf' = legacy_fix_links(st.merged_pdf, st.bookmark_positions)
                 /\ page_mapping' = st.page_mapping
                 /\ bookmark_positions' = st.bookmark_positions
                 /\ current_page' = st.current_page
                 /\ outline' = legacy_outline(st, first_toc, amap)
                 /\ files' = [files EXCEPT !.MERGED_PDF = "new"]
                 /\ exit_status' = 0
  /\ pc' = "legacy_done"
  /\ UNCHANGED <<errors, gen_vars, inputs, toc_page_indices, todo, links_fixed>>

(***************************************************************************)
(* merge_pdfs and main when a call raises: what each try/except catches    *)
(* and what it lets through.                                               *)
(***************************************************************************)
\* how many calls raise in one run
MaxRaises == 2

\* the order in which fix_links goes through the pages: the TOC pages, then
\* every other page in ascending order
FixOrder(doc) ==
  FindTocPages(doc)
    \o SelectSeq([j \in 1..PageCount(doc) |-> j - 1],
                 LAMBDA i : ~InSeq(i, FindTocPages(doc)))

\* delete_link(link); insert_link(new_link) for the links of R only
ReplaceSome(links, positions, R) ==
  LET fix(l) == IF l \in R THEN GotoLink(l.rect, positions[l.id]) ELSE l
      image == {fix(l) : l \in BagToSet(links)}
  IN  [g \in image |-> BagSum(links, {l \in BagToSet(links) : fix(l) = g})]

\* the number of links fix_links counts on the page at index i
FixCount(doc, positions, i) ==
  BagSum(PageAt(doc, i).links, Fixable(PageAt(doc, i).links, positions))
    + (IF InSeq(i, FindTocPages(doc))
       THEN Cardinality(Synthesized(PageAt(doc, i), positions)) ELSE 0)

\* the places where a call inside the try block of fix_links can raise, on
\* the k-th page of the pass: insert_link of a created link (op "new") after
\* the links of synth were created; delete_link of an existing link (op
\* "delete") or the insert_link that follows it (op "insert"), after the
\* links of replaced were replaced
RaisePoints(doc, positions) ==
  UNION {
    LET p == PageAt(doc, FixOrder(doc)[k])
        created == IF InSeq(FixOrder(doc)[k], FindTocPages(doc))
                   THEN Synthesized(p, positions) ELSE {}
        fixable == Fixable(p.links, positions)
    IN  {[k |-> k, op |-> "new", synth |-> S, replaced |-> {},
          link |-> GotoLink(Rect(TOC_ROW, "search"), -1)] :
           S \in (SUBSET created) \ {created}}
        \cup UNION {
          {[k |-> k, op |-> o, synth |-> created, replaced |-> R, link |-> l] :
             o \in {"delete", "insert"}, R \in SUBSET (fixable \ {l})}
          : l \in fixable}
    : k \in 1..Len(FixOrder(doc))}

\* fix_links when the call at `at` raises: the except clause ends the pass;
\* the pages before are fixed, the page at hand is left as the raise found
\* it, the pages after are untouched
fix_links_raises(doc, positions, at) ==
  LET order == FixOrder(doc)
      fixed == fix_links(doc, positions).doc
      rank(i) == CHOOSE k \in 1..Len(order) : order[k] = i
      p == PageAt(doc, order[at.k])
      replaced == ReplaceSome(p.links, positions, at.replaced)
      left == IF at.op = "insert" THEN replaced (-) SetToBag({at.link}) ELSE replaced
      before[k \in 0..Len(order)] ==
        IF k = 0 THEN 0 ELSE before[k - 1] + FixCount(doc, positions, order[k])
  IN  [doc |-> [j \in 1..PageCount(doc) |->
                  IF rank(j - 1) < at.k THEN fixed[j]
                  ELSE IF rank(j - 1) = at.k
                       THEN [p EXCEPT !.links =
                               left (+) SynthesizedLinks(p, positions, at.synth)]
                       ELSE doc[j]],
       links_fixed |-> before[at.k - 1] + Cardinality(at.synth)
                         + BagSum(p.links, at.replaced)]

\* main: read_attachment_data raises (no Excel file, no sheet, a required
\* field missing from the headers); main returns 1
ReadAttachmentDataRaises ==
  /\ pc = "start"
  /\ Cardinality(errors) < MaxRaises
  /\ \E why \in {"excel_file", "sheet", "required_field"} :
       errors' = errors \cup {why}
  /\ exit_status' = 1
  /\ pc' = "failed"
  /\ UNCHANGED <<files, gen_vars, inputs, attachment_map, toc_page_index,
                 toc_page_indices, cover_page_indices, todo, merged_pdf,
                 page_mapping, bookmark_positions, current_page, links_fixed,
                 outline>>

\* merge_pdfs: OUTPUT_PDF does not exist, FileNotFoundError; main returns 1
TocPdfMissing ==
  /\ pc = "start"
  /\ Cardinality(errors) < MaxRaises
  /\ errors' = errors \cup {"toc_pdf"}
  /\ exit_status' = 1
  /\ pc' = "failed"
  /\ UNCHANGED <<files, gen_vars, inputs, attachment_map, toc_page_index,
                 toc_page_indices, cover_page_indices, todo, merged_pdf,
                 page_mapping, bookmark_positions, current_page, links_fixed,
                 outline>>

\* merge_pdfs: fix_links, one of whose link calls raises; merge_pdfs goes on
FixLinksRaises ==
  /\ pc = "splice"
  /\ todo = <<>>
  /\ Cardinality(errors) < MaxRaises
  /\ \E at \in RaisePoints(merged_pdf, bookmark_positions) :
       \E r \in {fix_links_raises(merged_pdf, bookmark_positions, at)} :
         /\ merged_pdf' = r.doc
         /\ links_fixed' = r.links_fixed
  /\ errors' = errors \cup {"fix_links"}
  /\ pc' = "save"
  /\ UNCHANGED <<files, gen_vars, inputs, attachment_map, toc_page_index,
                 toc_page_indices, cover_page_indices, todo, page_mapping,
                 bookmark_positions, current_page, outline, exit_status>>

\* merge_pdfs: merged_pdf.save(temp_merged_file) raises, whether or not the
\* file was created; main returns 1
SaveTempRaises ==
  /\ pc = "save"
  /\ Cardinality(errors) < MaxRaises
  /\ \E created \in BOOLEAN :
       files' = [files EXCEPT !.temp_merged_file = created]
  /\ errors' = errors \cup {"save_temp"}
  /\ exit_status' = 1
  /\ pc' = "failed"
  /\ UNCHANGED <<gen_vars, inputs, attachment_map, toc_page_index,
                 toc_page_indices, cover_page_indices, todo, merged_pdf,
                 page_mapping, bookmark_positions, current_page, links_fixed,
                 outline>>

\* merge_pdfs: the temporary file is saved, then a call in the with block of
\* create_bookmarks raises: merged_pdf.save(tmp.name), temp_pdf.set_toc(toc)
\* or temp_pdf.save(MERGED_PDF), which may have begun to write; main
\* returns 1
CreateBookmarksRaises ==
  /\ pc = "save"
  /\ Cardinality(errors) < MaxRaises
  /\ \E call \in {"save_tmp", "set_toc", "save_merged"} :
       /\ errors' = errors \cup {call}
       /\ \E written \in (IF call = "save_merged"
                          THEN {files.MERGED_PDF, "partial"}
                          ELSE {files.MERGED_PDF}) :
            files' = [files EXCEPT !.temp_merged_file = TRUE, !.tmp = TRUE,
                                   !.MERGED_PDF = written]
  /\ exit_status' = 1
  /\ pc' = "failed"
  /\ UNCHANGED <<gen_vars, inputs, attachment_map, toc_page_index,
                 toc_page_indices, cover_page_indices, todo, merged_pdf,
                 page_mapping, bookmark_positions, current_page, links_fixed,
                 outline>>

\* merge_pdfs: a call in the try block that checks the final PDF raises:
\* fitz.open(MERGED_PDF), or, when links are missing,
\* final_pdf.save(temp_final_file) or shutil.copy(temp_final_file,
\* MERGED_PDF), which may have begun to write; the except clause prints a
\* warning, temp_merged_file is removed and main returns 0
CheckFinalLinksRaises ==
  /\ pc = "check"
  /\ Cardinality(errors) < MaxRaises
  /\ \E call \in {"open_final"}
               \cup (IF LinksMissing(merged_pdf, bookmark_positions)
                     THEN {"save_final", "copy_final"} ELSE {}) :
       /\ errors' = errors \cup {call}
       /\ \E created \in (IF call = "save_final" THEN BOOLEAN
                          ELSE {call = "copy_final"}) :
            \E written \in (IF call = "copy_final"
                            THEN {files.MERGED_PDF, "partial"}
                            ELSE {files.MERGED_PDF}) :
              files' = [files EXCEPT !.temp_merged_file = FALSE,
                                     !.temp_final_file = created,
                                     !.MERGED_PDF = written]
  /\ exit_status' = 0
  /\ pc' = "done"
  /\ UNCHANGED <<gen_vars, inputs, attachment_map, toc_page_index,
                 toc_page_indices, cover_page_indices, todo, merged_pdf,
                 page_mapping, bookmark_positions, current_page, links_fixed,
                 outline>>

\* runs with one title page and a one-page TOC, of one or two attachments
\* whose files are readable one-page PDFs
FaultCatalogs ==
  {c \in Catalogs :
     Len(c) <= 2 /\ \A i \in 1..Len(c) : c[i].file = "ok" /\ c[i].pages = 1}

FaultInit ==
  /\ catalog \in FaultCatalogs
  /\ titlePages = 1
  /\ forewordPages = 0
  /\ \E kept \in SUBSET (CatalogNums(catalog) \cup {TOC_ROW}) :
       toc_pdf = BuildTocPdf(catalog, titlePages, forewordPages, 1, FALSE, kept)
  /\ pc = "start"
  /\ attachment_map = <<>>
  /\ toc_page_index = -1
  /\ toc_page_indices = <<>>
  /\ cover_page_indices = <<>>
  /\ todo = <<>>
  /\ merged_pdf = <<>>
  /\ page_mapping = <<>>
  /\ bookmark_positions = <<>>
  /\ current_page = 0
  /\ links_fixed = 0
  /\ outline = <<>>
  /\ exit_status = -1
  /\ files = NoFiles
  /\ errors = {}
  /\ GenIdle

FaultNext ==
  \/ LocatePages
  \/ CopyTocPages
  \/ InsertAttachment
  \/ FixLinks
  \/ CreateBookmarks
  \/ CheckFinalLinks
  \/ ReadAttachmentDataRaises
  \/ TocPdfMissing
  \/ FixLinksRaises
  \/ SaveTempRaises
  \/ CreateBookmarksRaises
  \/ CheckFinalLinksRaises

FaultSpec == FaultInit /\ [][FaultNext]_vars

(***************************************************************************)
(* merge_pdfs on documents with longer front matter and a longer TOC, of   *)
(* attachments of one page each.                                           *)
(***************************************************************************)
MaxWideTitlePages == 3
MaxWideForewordPages == 2
MaxWideTocPages == 3

WideCatalogs ==
  {c \in Catalogs : \A i \in 1..Len(c) : c[i].pages = 1}

WideInit ==
  /\ catalog \in WideCatalogs
  /\ titlePages \in 0..MaxWideTitlePages
  /\ forewordPages \in 0..MaxWideForewordPages
  /\ \E T \in 1..Min(MaxWideTocPages, Len(catalog)) :
       \E adj \in (IF T = 1 THEN {FALSE} ELSE BOOLEAN) :
         \E kept \in SUBSET (CatalogNums(catalog) \cup {TOC_ROW}) :
           toc_pdf = BuildTocPdf(catalog, titlePages, forewordPages, T, adj, kept)
  /\ pc = "start"
  /\ attachment_map = <<>>
  /\ toc_page_index = -1
  /\ toc_page_indices = <<>>
  /\ cover_page_indices = <<>>
  /\ todo = <<>>
  /\ merged_pdf = <<>>
  /\ page_mapping = <<>>
  /\ bookmark_positions = <<>>
  /\ current_page = 0
  /\ links_fixed = 0
  /\ outline = <<>>
  /\ exit_status = -1
  /\ files = NoFiles
  /\ errors = {}
  /\ GenIdle

WideNext ==
  \/ LocatePages
  \/ CopyTocPages
  \/ InsertAttachment
  \/ FixLinks
  \/ CreateBookmarks
  \/ CheckFinalLinks

WideSpec == WideInit /\ [][WideNext]_vars

(***************************************************************************)
(* merge_pdfs on a spreadsheet in which an attachment number occurs in     *)
(* more than one row: the generator renders a TOC row and a cover page per *)
(* row, so several pages carry the cover-page text of that number.         *)
(***************************************************************************)
\* the numbers of the rows, ascending, at least one of them repeated
DupRows ==
  {<<NUM_1, NUM_1>>, <<NUM_2, NUM_2>>, <<NUM_1, NUM_1, NUM_2>>,
   <<NUM_1, NUM_2, NUM_2>>, <<NUM_2, NUM_2, NUM_2>>}

DupCatalogs ==
  UNION {
    {[i \in 1..Len(rows) |->
        [num |-> rows[i], file |-> f[i].file, pages |-> f[i].pages,
         declared |-> DeclaredPages(rows[i])]] :
       f \in {g \in [1..Len(rows) -> FileOptions] :
                Cardinality({i \in 1..Len(rows) : g[i].file # "ok"}) <= MaxFaults}}
    : rows \in DupRows}

\* generate_html and add_title_page_to_toc for such a spreadsheet: a one-page
\* TOC with a row per spreadsheet row, and a cover page per spreadsheet row;
\* idx tells the cover pages of one number apart
DupTocPdf(cat, tp, kept) ==
  LET rows == [i \in 1..Len(cat) |-> cat[i].num]
      links == SetToBag({UriLink("#cover-", n, Rect(n, "anchor")) :
                           n \in CatalogNums(cat) \cap kept})
      front == [i \in 1..tp |-> Page("title", NoNum, i, <<>>, FALSE, NoLinks)]
      covers == [i \in 1..Len(rows) |->
                   Page("cover", rows[i],
                        Cardinality({j \in 1..i : rows[j] = rows[i]}),
                        <<>>, FALSE, NoLinks)]
  IN  front \o <<Page("toc", NoNum, 1, rows, FALSE, links)>> \o covers

DupInit ==
  /\ catalog \in DupCatalogs
  /\ titlePages \in 0..MaxTitlePages
  /\ forewordPages = 0
  /\ \E kept \in SUBSET CatalogNums(catalog) :
       toc_pdf = DupTocPdf(catalog, titlePages, kept)
  /\ pc = "start"
  /\ attachment_map = <<>>
  /\ toc_page_index = -1
  /\ toc_page_indices = <<>>
  /\ cover_page_indices = <<>>
  /\ todo = <<>>
  /\ merged_pdf = <<>>
  /\ page_mapping = <<>>
  /\ bookmark_positions = <<>>
  /\ current_page = 0
  /\ links_fixed = 0
  /\ outline = <<>>
  /\ exit_status = -1
  /\ files = NoFiles
  /\ errors = {}
  /\ GenIdle

DupNext ==
  \/ LocatePages
  \/ CopyTocPages
  \/ InsertAttachment
  \/ FixLinks
  \/ CreateBookmarks
  \/ CheckFinalLinks

DupSpec == DupInit /\ [][DupNext]_vars

(***************************************************************************)
(* TOC generator: src/src/pdf/toc_generator.py and the legacy script       *)
(* src/generate_toc_coverpage.py.                                          *)
(***************************************************************************)
GenRow(num, pages) == [num |-> num, pages |-> pages]

\* the 'Page count' cells of two consecutive rows, and whether the sheet
\* lists its rows bottom up
SheetPatterns ==
  { [counts |-> <<IntCell(3), IntCell(5)>>, reversed |-> FALSE],
    [counts |-> <<IntCell(2), FloatCell(300)>>, reversed |-> TRUE],
    [counts |-> <<FloatCell(250), StrCell(<<"3">>)>>, reversed |-> TRUE],
    [counts |-> <<NoneCell, StrCell(<<"a">>)>>, reversed |-> FALSE],
    [counts |-> <<IntCell(0), IntCell(1)>>, reversed |-> FALSE],
    [counts |-> <<IntCell(-2), StrCell(<<"0">>)>>, reversed |-> TRUE],
    [counts |-> <<FloatCell(40), StrCell(<<"-", "1">>)>>, reversed |-> FALSE] }

\* the 'Attachment Number' cell of row i: ints and whole floats alternate
NumCell(i) == IF i % 2 = 1 THEN IntCell(i) ELSE FloatCell(i * FloatScale)

\* a spreadsheet of n rows numbered 1..n, top down or bottom up
GenAttachments(n, counts, reversed) ==
  [k \in 1..n |->
     LET i == IF reversed THEN n + 1 - k ELSE k
     IN  GenRow(NumCell(i), counts[((i - 1) % Len(counts)) + 1])]

\* F applied to the value of v, with v evaluated once
Bind(v, F(_)) == CHOOSE r \in {F(x) : x \in {v}} : TRUE

\* the number of rows that sorted() puts before row i
RankOf(key) ==
  [i \in DOMAIN key |->
     Cardinality({j \in DOMAIN key : key[j] < key[i] \/ (key[j] = key[i] /\ j < i)})]

\* sorted(rows, key=...): stable, key[i] is the key of rows[i]
SortedByKey(rows, key) ==
  Bind(rows, LAMBDA rs :
    Bind(Bind(key, RankOf), LAMBDA rank :
      Bind([k \in 1..Len(rs) |-> CHOOSE i \in 1..Len(rs) : rank[i] = k - 1],
           LAMBDA place : [k \in 1..Len(rs) |-> rs[place[k]]])))

\* max(1, min(3, (toc_entries + 24) // 25))
EstimatedTocPages(toc_entries) ==
  Max({1, Min(3, (toc_entries + 24) \div 25)})

\* max(1, min(3, (toc_entries + 14) // 15)) of the legacy script
LegacyEstimatedTocPages(toc_entries) ==
  Max({1, Min(3, (toc_entries + 14) \div 15)})

\* current_page before each row of the loop and after the last one
RECURSIVE Cursors(_, _)
Cursors(counts, start_page) ==
  IF counts = <<>> THEN <<start_page>>
  ELSE <<start_page>> \o Cursors(Tail(counts), start_page + Head(counts) + 1)

\* the loop of calculate_page_map: page_map[num] = current_page;
\* current_page += page_count + 1
PageMapFrom(sorted, start_page) ==
  Bind(sorted, LAMBDA srt :
    Bind([k \in 1..Len(srt) |-> normalize_attachment_number(srt[k].num)], LAMBDA num :
      Bind(Cursors([k \in 1..Len(srt) |-> normalize_page_count(srt[k].pages)],
                   start_page),
           LAMBDA cursor :
             [a \in {num[k] : k \in 1..Len(srt)} |->
                cursor[Max({k \in 1..Len(srt) : num[k] = a})]])))

\* key=lambda x: float(normalize_attachment_number(x.get('Attachment Number')))
FloatKeys(atts) ==
  [i \in 1..Len(atts) |-> FloatOf(normalize_attachment_number(atts[i].num))]

\* toc_generator.calculate_page_map
calculate_page_map(atts, title_page_count, foreword_page_count) ==
  LET toc_entries == Len(atts) + (IF foreword_page_count > 0 THEN 1 ELSE 0)
      toc_pages == EstimatedTocPages(toc_entries)
      start_page == 1 + title_page_count + foreword_page_count + toc_pages + 1
  IN  [toc_pages |-> toc_pages, start_page |-> start_page,
       page_map |-> PageMapFrom(SortedByKey(atts, FloatKeys(atts)), start_page)]

\* key=lambda x: x.get('Attachment Number', 0) of the legacy script
RawKeys(atts) ==
  [i \in 1..Len(atts) |->
     IF atts[i].num.type = "int" THEN atts[i].num.v * FloatScale ELSE atts[i].num.v]

\* generate_toc_coverpage.calculate_page_map: sorted by the raw cell value
legacy_calculate_page_map(atts, foreword_pages) ==
  LET toc_pages == LegacyEstimatedTocPages(Len(atts))
      start_page == 1 + foreword_pages + toc_pages + 1
  IN  [toc_pages |-> toc_pages, start_page |-> start_page,
       page_map |-> PageMapFrom(SortedByKey(atts, RawKeys(atts)), start_page)]

\* generate_toc_pdf: attachment_pages, toc_pages, start_page and page_map as
\* it computes them before it calls generate_html
inline_page_map(atts, title_page_count, foreword_page_count) ==
  LET toc_pages == EstimatedTocPages(Len(atts))
      start_page == 1 + title_page_count + foreword_page_count + toc_pages
  IN  Bind([i \in 1..Len(atts) |-> normalize_attachment_number(atts[i].num)], LAMBDA num :
        Bind([a \in {num[i] : i \in 1..Len(atts)} |->
                normalize_page_count(atts[Max({i \in 1..Len(atts) : num[i] = a})].pages)],
             LAMBDA attachment_pages :
               [toc_pages |-> toc_pages, start_page |-> start_page,
                page_map |->
                  PageMapFrom(
                    SortedByKey([i \in 1..Len(atts) |->
                                   [atts[i] EXCEPT !.pages = IntCell(attachment_pages[num[i]])]],
                                FloatKeys(atts)),
                    start_page)]))

\* generate_toc_pdf up to generate_html, where
\* page_map = calculate_page_map(sorted_data)
GenerateHtml ==
  /\ gen_pc = "start"
  /\ estimate' = calculate_page_map(attachments, titlePages, forewordPages)
  /\ inline_estimate' = inline_page_map(attachments, titlePages, forewordPages)
  /\ gen_pc' = "html"
  /\ UNCHANGED <<disk_vars, catalog, titlePages, forewordPages, toc_pdf, pc, attachment_map,
                 toc_page_index, toc_page_indices, cover_page_indices, todo,
                 merged_pdf, page_mapping, bookmark_positions, current_page,
                 links_fixed, outline, exit_status,
                 attachments, final_pdf, toc_bookmarks, output_pdf>>

\* generate_html of the legacy script
LegacyGenerateHtml ==
  /\ gen_pc = "start"
  /\ estimate' = legacy_calculate_page_map(attachments, forewordPages)
  /\ gen_pc' = "legacy_html"
  /\ UNCHANGED <<disk_vars, catalog, titlePages, forewordPages, toc_pdf, pc, attachment_map,
                 toc_page_index, toc_page_indices, cover_page_indices, todo,
                 merged_pdf, page_mapping, bookmark_positions, current_page,
                 links_fixed, outline, exit_status,
                 attachments, final_pdf, toc_bookmarks, output_pdf,
                 inline_estimate>>

\* sorted(S, key=float): the numbers of S in ascending order
SetToSeqByKey(S) ==
  Bind([a \in S |-> FloatOf(a)], LAMBDA key :
    Bind([a \in S |-> Cardinality({b \in S : key[b] < key[a]})], LAMBDA rank :
      [k \in 1..Cardinality(S) |-> CHOOSE a \in S : rank[a] = k - 1]))

\* the rows "Title Page" and "Foreword" of the TOC
TITLE_ROW == <<"P">>

FOREWORD_ROW == <<"F">>

\* the pages of OUTPUT_TOC for the sorted numbers rows
RenderedPages(rows, hasTitle, hasForeword, T) ==
  LET special ==
        (IF hasTitle
         THEN {UriLink("#title-page", NoNum, Rect(TITLE_ROW, "anchor"))} ELSE {})
        \cup (IF hasForeword
              THEN {UriLink("#foreword", NoNum, Rect(FOREWORD_ROW, "anchor"))} ELSE {})
        \cup {UriLink("#table-of-contents", NoNum, Rect(TOC_ROW, "anchor"))}
      rowLinks(rs) ==
        SetToBag({UriLink("#cover-", rs[i], Rect(rs[i], "anchor")) : i \in 1..Len(rs)})
      tocPage(t, rs) ==
        Page("toc", NoNum, t, rs, FALSE,
             rowLinks(rs) (+) (IF t = 1 THEN SetToBag(special) ELSE EmptyBag))
  IN  [t \in 1..T |-> Bind(RowsOfPage(rows, T, t), LAMBDA rs : tocPage(t, rs))]
      \o [i \in 1..Len(rows) |-> Page("cover", rows[i], 1, <<>>, FALSE, NoLinks)]

\* generate_html rendered to OUTPUT_TOC: T TOC pages, then one cover page
\* per row in ascending number order
RenderedToc(atts, hasTitle, hasForeword, T) ==
  Bind(SortedByKey(atts, FloatKeys(atts)), LAMBDA sorted_data :
    Bind([k \in 1..Len(sorted_data) |-> normalize_attachment_number(sorted_data[k].num)],
         LAMBDA rows : RenderedPages(rows, hasTitle, hasForeword, T)))

\* add_title_page_to_toc: the title file, then the foreword file, are put in
\* front only when the title file exists
add_title_page_to_toc(output_toc, title_page_count, foreword_page_count) ==
  IF title_page_count > 0
  THEN [i \in 1..title_page_count |-> Page("title", NoNum, i, <<>>, FALSE, NoLinks)]
       \o [i \in 1..foreword_page_count |->
             Page("foreword", NoNum, i, <<>>, FALSE, NoLinks)]
       \o output_toc
  ELSE output_toc

\* the pages that map_cover_pages takes for cover pages
CoverHits(doc) ==
  {i \in 0..(PageCount(doc) - 1) :
     /\ ~HasTocHeading(PageAt(doc, i))
     /\ HasAttachmentWord(PageAt(doc, i))
     /\ HasPageSpace(PageAt(doc, i))}

\* map_cover_pages: actual_cover_pages
map_cover_pages(doc) ==
  Bind(CoverHits(doc), LAMBDA hits :
    [n \in {FirstAttachmentToken(PageAt(doc, i)) : i \in hits} |->
       Max({i \in hits : FirstAttachmentToken(PageAt(doc, i)) = n})])

\* title_page_idx = 0; foreword_page_idx = 1 in create_bookmarks and in
\* fix_pdf_links
title_page_idx == 0

foreword_page_idx == 1

\* the first page with the "Table of Contents" heading, -1 without one
FirstHeadingPage(doc) ==
  LET cand == {i \in 0..(PageCount(doc) - 1) : HasTocHeading(PageAt(doc, i))}
  IN  IF cand = {} THEN -1 ELSE CHOOSE x \in cand : \A y \in cand : x <= y

\* the links of a page after every link l was replaced by f(l)
MapLinks(links, f(_)) ==
  IF links = EmptyBag THEN EmptyBag
  ELSE [g \in {f(l) : l \in BagToSet(links)} |->
          BagSum(links, {l \in BagToSet(links) : f(l) = g})]

\* toc_generator.fix_pdf_links: the document it leaves
fix_pdf_links(doc, attachment_pages) ==
  LET fixCover(l) ==
        IF IsCoverUri(l) /\ l.id \in DOMAIN attachment_pages
        THEN GotoLink(l.rect, attachment_pages[l.id]) ELSE l
      fixToc(l, toc_page_idx) ==
        IF l.kind = "uri" /\ l.scheme = "#title-page" THEN GotoLink(l.rect, title_page_idx)
        ELSE IF l.kind = "uri" /\ l.scheme = "#foreword"
             THEN GotoLink(l.rect, foreword_page_idx)
        ELSE IF l.kind = "uri" /\ l.scheme = "#table-of-contents"
             THEN GotoLink(l.rect, toc_page_idx)
        ELSE fixCover(l)
  IN  Bind(FirstHeadingPage(doc), LAMBDA toc_page_idx :
        IF toc_page_idx < 0 THEN doc
        ELSE [k \in 1..PageCount(doc) |->
                [doc[k] EXCEPT !.links =
                   IF k - 1 = toc_page_idx
                   THEN MapLinks(@, LAMBDA l : fixToc(l, toc_page_idx))
                   ELSE MapLinks(@, fixCover)]])

\* toc_generator.create_bookmarks: toc_bookmarks (page indices as written)
toc_create_bookmarks(doc, attachment_pages, atts, title_page_exists, foreword_exists) ==
  Bind(FirstHeadingPage(doc), LAMBDA toc_page_idx :
    Bind({normalize_attachment_number(atts[i].num) : i \in 1..Len(atts)}, LAMBDA known :
      Bind(SetToSeqByKey({n \in DOMAIN attachment_pages : n \in known}), LAMBDA rows :
        (IF title_page_exists
         THEN <<OutlineEntry(1, "Title Page", NoNum, 0, title_page_idx)>> ELSE <<>>)
        \o (IF foreword_exists
            THEN <<OutlineEntry(1, "Foreword", NoNum, 0, foreword_page_idx)>> ELSE <<>>)
        \o (IF toc_page_idx >= 0
            THEN <<OutlineEntry(1, "Table of Contents", NoNum, 0, toc_page_idx)>>
            ELSE <<>>)
        \o [k \in 1..Len(rows) |->
              OutlineEntry(1, "Attachment: Title", rows[k], 0,
                           attachment_pages[rows[k]])])))

\* a rendering that carries no link annotations
Unlinked(doc) == [k \in 1..Len(doc) |-> [doc[k] EXCEPT !.links = NoLinks]]

\* map_cover_pages: what it leaves at OUTPUT_PDF: the links fixed through
\* its own handle and the outline of create_bookmarks(pdf_doc,
\* actual_cover_pages, [])
MappedOutput(doc, attachment_pages, title_page_exists, foreword_exists) ==
  Bind(fix_pdf_links(doc, attachment_pages), LAMBDA pdf_doc :
    [pages |-> pdf_doc,
     toc |-> toc_create_bookmarks(pdf_doc, attachment_pages, <<>>,
                                  title_page_exists, foreword_exists)])

\* generate_toc_pdf: render, add_title_page_to_toc, map_cover_pages,
\* create_bookmarks and fix_pdf_links on the document it holds, which it
\* saves when links_fixed > 0; the rendering may have lost its link
\* annotations.  Without a title file the handle was opened
\* from OUTPUT_PDF and save(OUTPUT_PDF) raises ("save to original must be
\* incremental")
GenerateTocPdf ==
  /\ gen_pc = "html"
  /\ \E T \in 1..Min(MaxTocPages, Max({1, Len(attachments)})) :
       \E rendered \in {add_title_page_to_toc(
                          RenderedToc(attachments, titlePages > 0, forewordPages > 0, T),
                          titlePages, forewordPages)} :
        \E doc \in {rendered, Unlinked(rendered)} :
         \E attachment_pages \in {map_cover_pages(doc)} :
           \E bookmarks \in {toc_create_bookmarks(doc, attachment_pages, attachments,
                                                  titlePages > 0, forewordPages > 0)} :
             \E fixed \in {fix_pdf_links(doc, attachment_pages)} :
               /\ toc_bookmarks' = bookmarks
               /\ final_pdf' = fixed
               /\ IF fixed = doc
                  THEN /\ output_pdf' = MappedOutput(doc, attachment_pages,
                                                     titlePages > 0, forewordPages > 0)
                       /\ gen_pc' = "generated"
                  ELSE IF titlePages > 0
                  THEN /\ output_pdf' = [pages |-> fixed, toc |-> bookmarks]
                       /\ gen_pc' = "generated"
                  ELSE /\ output_pdf' = MappedOutput(doc, attachment_pages,
                                                     titlePages > 0, forewordPages > 0)
                       /\ gen_pc' = "save_raised"
  /\ UNCHANGED <<disk_vars, catalog, titlePages, forewordPages, toc_pdf, pc, attachment_map,
                 toc_page_index, toc_page_indices, cover_page_indices, todo,
                 merged_pdf, page_mapping, bookmark_positions, current_page,
                 links_fixed, outline, exit_status, attachments, estimate,
                 inline_estimate>>

\* no merge run is under way
MergeIdle ==
  /\ catalog = <<>>
  /\ toc_pdf = <<>>
  /\ pc = "idle"
  /\ attachment_map = <<>>
  /\ toc_page_index = -1
  /\ toc_page_indices = <<>>
  /\ cover_page_indices = <<>>
  /\ todo = <<>>
  /\ merged_pdf = <<>>
  /\ page_mapping = <<>>
  /\ bookmark_positions = <<>>
  /\ current_page = 0
  /\ links_fixed = 0
  /\ outline = <<>>
  /\ exit_status = -1
  /\ files = NoFiles
  /\ errors = {}

GenInit ==
  /\ titlePages \in 0..MaxGenTitlePages
  /\ forewordPages \in 0..MaxForewordPages
  /\ \E n \in 0..MaxEntries :
       \E sheet \in SheetPatterns :
         attachments = GenAttachments(n, sheet.counts, sheet.reversed)
  /\ gen_pc = "start"
  /\ estimate = NoEstimate
  /\ final_pdf = <<>>
  /\ toc_bookmarks = <<>>
  /\ output_pdf = NoOutput
  /\ inline_estimate = NoEstimate
  /\ MergeIdle

GenNext ==
  \/ GenerateHtml
  \/ LegacyGenerateHtml
  \/ GenerateTocPdf

GenSpec == GenInit /\ [][GenNext]_vars

Next ==
  \/ LocatePages
  \/ CopyTocPages
  \/ InsertAttachment
  \/ FixLinks
  \/ CreateBookmarks
  \/ CheckFinalLinks
  \/ PatchAgain
  \/ LegacyMerge

Spec == Init /\ [][Next]_vars

(***************************************************************************)
(* What the documents physically contain, read off the page sequence and   *)
(* not off the assembler's tables.                                         *)
(***************************************************************************)
\* the index of the page with identity id, -1 when the document lacks it
PhysIndex(doc, id) ==
  IF \E j \in 1..Len(doc) : PageId(doc[j]) = id
  THEN (CHOOSE j \in 1..Len(doc) : PageId(doc[j]) = id) - 1
  ELSE -1

CoverId(n) == <<"cover", n, 1>>

CoverIndex(doc, n) == PhysIndex(doc, CoverId(n))

ContentIndices(doc, n) ==
  {j - 1 : j \in {i \in 1..Len(doc) : doc[i].kind = "content" /\ doc[i].num = n}}

Spliced == pc \in {"save", "check", "done", "patched_again"}

Assembled == Spliced \/ (pc = "splice" /\ todo = <<>>)

C2_SpliceShiftsLaterPositionsByK ==
  [][(pc = "splice" /\ todo # <<>> /\ Len(merged_pdf') > Len(merged_pdf)) =>
       LET n == Head(todo)
           p == CoverIndex(merged_pdf, n)
           k == Cardinality(ContentIndices(merged_pdf', n))
       IN  /\ k = Len(merged_pdf') - Len(merged_pdf)
           /\ ContentIndices(merged_pdf', n) = (p + 1)..(p + k)
           /\ DOMAIN page_mapping' = DOMAIN page_mapping
           /\ \A i \in DOMAIN page_mapping :
                page_mapping'[i] = IF page_mapping[i] >= p + 1
                                   THEN page_mapping[i] + k
                                   ELSE page_mapping[i]
           /\ DOMAIN bookmark_positions' = DOMAIN bookmark_positions \cup {n}
           /\ bookmark_positions'[n] = p
           /\ \A a \in DOMAIN bookmark_positions \ {n} :
                bookmark_positions'[a] = IF bookmark_positions[a] >= p + 1
                                         THEN bookmark_positions[a] + k
                                         ELSE bookmark_positions[a]
    ]_vars

\* after a splice: positions before the insertion point kept, positions after
\* it moved, and an earlier attachment's recorded position in the table
C2_Witness ==
  /\ pc = "splice"
  /\ Len(merged_pdf) > Len(toc_pdf)
  /\ \E i, j \in DOMAIN page_mapping : page_mapping[i] = i /\ page_mapping[j] > j
  /\ Cardinality(DOMAIN bookmark_positions) >= 2

\* the attachment entries of an outline, in outline order
AttachmentEntries(o) == SelectSeq(o, LAMBDA e : e.num # NoNum)

FileOf(n) == build_attachment_map(catalog)[n].file

\* C3: the outline written by create_bookmarks has exactly one entry for each
\* attachment whose cover page is in the assembled document and none for any
\* other number, each entry designates the physical page of that cover page,
\* and the targets strictly increase in attachment-number order.
C3_OutlineHasEveryCoverPage ==
  pc = "done" =>
    LET atts == AttachmentEntries(outline)
    IN  /\ \A n \in CatalogNums(catalog) :
             CoverIndex(merged_pdf, n) >= 0 =>
               Cardinality({k \in 1..Len(atts) : atts[k].num = n}) = 1
        /\ \A k \in 1..Len(atts) :
             /\ atts[k].num \in CatalogNums(catalog)
             /\ atts[k].page = CoverIndex(merged_pdf, atts[k].num) + 1
        /\ \A k \in 1..(Len(atts) - 1) :
             /\ SortKey(atts[k].num) < SortKey(atts[k + 1].num)
             /\ atts[k].page < atts[k + 1].page

\* C4: after assembly bookmark_positions has an entry for a number exactly
\* when that attachment's cover page is in the document and its file is not
\* missing on disk.
C4_AnchorMapEntries ==
  Assembled =>
    \A n \in CatalogNums(catalog) :
      n \in DOMAIN bookmark_positions
        <=> (CoverIndex(merged_pdf, n) >= 0 /\ FileOf(n) # "missing")

\* C5: the Patcher applied a second time to the finished document fixes no
\* link, adds no link object to any page and leaves the outline as it was.
C5_SecondPatchChangesNothing ==
  [][(pc = "done" /\ pc' = "patched_again") =>
       /\ links_fixed' = 0
       /\ merged_pdf' = merged_pdf
       /\ outline' = outline]_vars

\* the GOTO links of page p that lie on the row of number n and lead to page t
RowLinksTo(p, n, t) ==
  BagSum(p.links, {g \in BagToSet(p.links) :
                     g.kind = "goto" /\ g.rect.row = n /\ g.page = t})

\* C6: after one fix_links pass every TOC row carries at most one link to
\* its attachment's cover page.
C6_OneLinkPerRow ==
  pc = "save" =>
    \A j \in 1..Len(merged_pdf) :
      merged_pdf[j].kind = "toc" =>
        \A r \in 1..Len(merged_pdf[j].rows) :
          RowLinksTo(merged_pdf[j], merged_pdf[j].rows[r],
                     CoverIndex(merged_pdf, merged_pdf[j].rows[r])) <= 1

\* C7: a run ends without failure whatever the attachment numbers are, also
\* fractional ones, and the attachment entries of its outline are strictly
\* ascending by number compared numerically.
C7_FractionalNumbersAscending ==
  pc \in {"done", "legacy_done"} =>
    LET atts == AttachmentEntries(outline)
    IN  /\ exit_status = 0
        /\ \A k \in 1..(Len(atts) - 1) :
             FloatOf(atts[k].num) < FloatOf(atts[k + 1].num)

OutlineRank(e) ==
  CASE e.label = "Title Page" -> 1
    [] e.label = "Foreword" -> 2
    [] e.label = "Table of Contents" -> 3
    [] e.label = "Table of Contents (continued)" -> 4
    [] OTHER -> 5

\* C8: the outline is Title, Foreword, Table of Contents, its continuation
\* entries, then the attachment entries, with the Title entry present exactly
\* when the title file exists and the Foreword entry exactly when the
\* foreword file exists.
C8_OutlineSections ==
  pc = "done" =>
    /\ \A k \in 1..(Len(outline) - 1) :
         OutlineRank(outline[k]) <= OutlineRank(outline[k + 1])
    /\ Cardinality({k \in 1..Len(outline) : OutlineRank(outline[k]) = 1})
         = (IF titlePages > 0 THEN 1 ELSE 0)
    /\ Cardinality({k \in 1..Len(outline) : OutlineRank(outline[k]) = 2})
         = (IF forewordPages > 0 THEN 1 ELSE 0)
    /\ Cardinality({k \in 1..Len(outline) : OutlineRank(outline[k]) = 3}) = 1

\* C9: when an attachment file does not exist on disk the run still returns
\* 0 and the final outline has no entry for that attachment.
C9_MissingFileHasNoOutlineEntry ==
  pc = "done" =>
    /\ exit_status = 0
    /\ \A n \in CatalogNums(catalog) :
         FileOf(n) = "missing" =>
           \A k \in 1..Len(outline) : outline[k].num # n

Sum(f, S) == BagSum(f, S)

LeadingPages == Len(toc_pdf) - Cardinality(CatalogNums(catalog))

DeclaredOf == [n \in CatalogNums(catalog) |-> build_attachment_map(catalog)[n].declared]

ActualOf == [n \in CatalogNums(catalog) |-> build_attachment_map(catalog)[n].pages]

SplicedNums ==
  {n \in DOMAIN cover_page_indices :
     FileOf(n) = "ok" /\ \A i \in 1..Len(todo) : todo[i] # n}

GenNums ==
  SetToSeqByKey({normalize_attachment_number(attachments[i].num) :
                   i \in 1..Len(attachments)})

\* the declared page count the estimator uses for number a
DeclaredCountOf(a) ==
  normalize_page_count(
    attachments[CHOOSE i \in 1..Len(attachments) :
                  normalize_attachment_number(attachments[i].num) = a].pages)

\* C11: calculate_page_map gives the first attachment, in ascending number
\* order, the page right after the leading pages (title pages, foreword
\* pages, estimated TOC pages), and every later attachment the estimate of
\* the attachment before it plus that attachment's declared page count
\* plus 1; {1: 3 pages, 2: 5 pages} without title and foreword gives 2 and 6.
C11_EstimateStartsAfterLeadingPages ==
  gen_pc = "html" =>
    \A nums \in {GenNums} :
      /\ DOMAIN estimate.page_map = {nums[k] : k \in 1..Len(nums)}
      /\ Len(nums) > 0 =>
           estimate.page_map[nums[1]]
             = titlePages + forewordPages + estimate.toc_pages + 1
      /\ \A k \in 2..Len(nums) :
           estimate.page_map[nums[k]]
             = estimate.page_map[nums[k - 1]] + DeclaredCountOf(nums[k - 1]) + 1

(***************************************************************************)
(* Claims about the merge, continued.                                      *)
(***************************************************************************)
\* the indices of the TOC pages that a document physically has
TocPageSet(doc) == {i \in 0..(Len(doc) - 1) : PageAt(doc, i).kind = "toc"}

SeqToSet(q) == {q[k] : k \in 1..Len(q)}

\* C12: when the TOC runs over more than one page, the TOC pages that
\* locate_toc_page records and the TOC pages that fix_links processes are
\* exactly the consecutive TOC pages of the document, from the page with the
\* "Table of Contents" heading on, wherever that page lies.
C12_EveryTocPageDetected ==
  (pc \in {"copy", "splice", "save", "check", "done"}
     /\ Cardinality(TocPageSet(toc_pdf)) > 1) =>
    /\ SeqToSet(toc_page_indices) = TocPageSet(toc_pdf)
    /\ pc # "copy" => SeqToSet(FindTocPages(merged_pdf)) = TocPageSet(merged_pdf)

(***************************************************************************)
(* Claims about the TOC generator, continued.                              *)
(***************************************************************************)
\* the targets of the GOTO links of doc that lie on the TOC row row
RowTargets(doc, row) ==
  {g.page : g \in UNION {{l \in BagToSet(doc[k].links) :
                            l.kind = "goto" /\ l.rect.row = row} : k \in 1..Len(doc)}}

\* the pages of the outline entries with the given label
EntryPages(o, label) == {o[k].page : k \in {j \in 1..Len(o) : o[j].label = label}}

\* C13: whenever the foreword is part of the generated document, the anchor
\* of the "Foreword" outline entry and of the rewritten '#foreword' link is
\* the index of the foreword's first page, which is the title page count;
\* the Title anchor is index 0 whenever the title is present.
C13_ForewordAnchorIsTitlePageCount ==
  gen_pc = "generated" =>
    /\ PhysIndex(final_pdf, <<"foreword", NoNum, 1>>) >= 0 =>
         /\ PhysIndex(final_pdf, <<"foreword", NoNum, 1>>) = titlePages
         /\ EntryPages(toc_bookmarks, "Foreword") = {titlePages}
         /\ RowTargets(final_pdf, FOREWORD_ROW) = {titlePages}
    /\ titlePages > 0 =>
         /\ PhysIndex(final_pdf, <<"title", NoNum, 1>>) = 0
         /\ EntryPages(toc_bookmarks, "Title Page") = {0}
         /\ RowTargets(final_pdf, TITLE_ROW) = {0}

\* TOC_ENTRIES_PER_PAGE of src/src/config/constants.py
TOC_ENTRIES_PER_PAGE == 25

\* ceil(n / capacity) clamped to 1..3
ClampedCeil(n, capacity) ==
  Max({1, Min(3, (n + capacity - 1) \div capacity)})

\* C14: for every number n of attachment entries the estimated TOC page
\* count is ceil(n / capacity) clamped to 1..3, where capacity is the one
\* configured entries-per-page constant and n counts the attachment entries.
C14_TocPagesFromEntryCount ==
  gen_pc \in {"html", "legacy_html"} =>
    estimate.toc_pages = ClampedCeil(Len(attachments), TOC_ENTRIES_PER_PAGE)

\* the 'Page count' cell is absent or float() of it raises
Unparseable(c) == c.type = "none" \/ (c.type = "str" /\ ~ParsesAsFloat(c.s))

\* C15: the declared page count that the estimator uses is a positive
\* integer for every cell (int, float, text, absent), it is 1 when the cell
\* is absent or cannot be parsed, and so the estimates strictly increase
\* from one attachment to the next.
C15_DeclaredCountPositive ==
  gen_pc = "html" =>
    /\ \A i \in 1..Len(attachments) :
         /\ normalize_page_count(attachments[i].pages) >= 1
         /\ Unparseable(attachments[i].pages) =>
              normalize_page_count(attachments[i].pages) = 1
    /\ \A nums \in {GenNums} :
         \A k \in 1..(Len(nums) - 1) :
           estimate.page_map[nums[k]] < estimate.page_map[nums[k + 1]]

(***************************************************************************)
(* Exit status, files on disk and recovery when a call raises.             *)
(***************************************************************************)
\* the failures after which no document can be delivered: no spreadsheet or
\* required column, no TOC PDF, a save of the merged document that raised
Unrecoverable ==
  {"excel_file", "required_field", "toc_pdf",
   "save_temp", "save_tmp", "save_merged", "save_final"}

Ended == pc \in {"done", "failed"}

\* C16: main returns 0 only when no unrecoverable error occurred in the run:
\* a missing spreadsheet or required column, a missing TOC PDF and a failed
\* save of the merged document at any stage of merge_pdfs each end the run
\* with a non-zero status.
C16_ExitZeroOnlyWithoutUnrecoverableError ==
  Ended /\ exit_status = 0 => errors \cap Unrecoverable = {}

\* C17: at every moment the canonical output path holds either the complete
\* document that was there before the run or the complete new document,
\* never a partially written one: every write to it goes to a temporary
\* file first and is then put in place in one step.
C17_CanonicalPathNeverPartial ==
  files.MERGED_PDF \in {"old", "new"}

\* the temporary files of a run that exist: MERGED_PDF + ".temp",
\* MERGED_PDF + ".final.temp" and the NamedTemporaryFile of create_bookmarks
TempFilesLeft ==
  {f \in {"temp_merged_file", "temp_final_file", "tmp"} : files[f]}

\* C18: when a run has ended, on whichever path and with whichever exit
\* status, none of the temporary files it created is left on disk.
C18_NoTempFileLeftAtEnd ==
  Ended => TempFilesLeft = {}

\* the failures of a repair: a link call that raised in fix_links, set_toc
\* that raised in create_bookmarks
RepairFailures == {"fix_links", "set_toc"}

\* every link of the page is still there, or the link that replaces it is
LinksKeptOrReplaced(before, after, positions) ==
  \A l \in BagToSet(before.links) :
    \/ CopiesIn(l, after.links) >= CopiesIn(l, before.links)
    \/ /\ l \in Fixable(before.links, positions)
       /\ BagIn(GotoLink(l.rect, positions[l.id]), after.links)

\* C19: a failure to repair a link or to set the outline is recovered
\* locally: the run goes on, it ends with the final document produced, and
\* no link was deleted without its replacement being inserted.
C19_RepairFailureRecoveredLocally ==
  [][/\ (errors' \ errors) \cap RepairFailures # {} => pc' # "failed"
     /\ "fix_links" \in errors' \ errors =>
          \A j \in 1..PageCount(merged_pdf) :
            LinksKeptOrReplaced(merged_pdf[j], merged_pdf'[j], bookmark_positions)
     /\ pc' \in {"done", "failed"} /\ errors' # {} /\ errors' \subseteq RepairFailures =>
          files'.MERGED_PDF = "new" /\ exit_status' = 0]_vars

\* insert_attachments has copied the TOC document and is in or past its
\* loop of splices
Splicing == pc \in {"splice", "save", "check", "done"}

\* C20: after any sequence of splices, page_mapping[i] is the index at which
\* page i of the TOC/cover document physically lies in the merged document,
\* for every i; bookmark_positions[n] is the page_mapping entry of n's cover
\* page; and the pages spliced for n lie directly after that position, so
\* each splice was made at the current position of its cover page plus 1.
C20_OffsetTableIsLive ==
  Splicing =>
    /\ DOMAIN page_mapping = 0..(PageCount(toc_pdf) - 1)
    /\ \A i \in DOMAIN page_mapping :
         /\ page_mapping[i] \in 0..(PageCount(merged_pdf) - 1)
         /\ PageId(PageAt(merged_pdf, page_mapping[i])) = PageId(PageAt(toc_pdf, i))
    /\ \A n \in DOMAIN bookmark_positions :
         /\ bookmark_positions[n] = page_mapping[cover_page_indices[n]]
         /\ bookmark_positions[n] = CoverIndex(merged_pdf, n)
         /\ ContentIndices(merged_pdf, n) \in
              {{}, (bookmark_positions[n] + 1)
                     ..(bookmark_positions[n] + build_attachment_map(catalog)[n].pages)}

\* in the loop, after the files of two attachments were spliced in and with
\* a cover page still to come that has moved by two pages or more
C20_Witness ==
  /\ pc = "splice"
  /\ todo # <<>>
  /\ \E a, b \in DOMAIN bookmark_positions :
       a # b /\ ContentIndices(merged_pdf, a) # {} /\ ContentIndices(merged_pdf, b) # {}
  /\ page_mapping[cover_page_indices[Head(todo)]] >= cover_page_indices[Head(todo)] + 2

\* the pages of the file of attachment n, as many as the file has
FilePages(n) == build_attachment_map(catalog)[n].pages

\* C21: in the assembled document the k pages of every spliced attachment
\* lie at the k consecutive indices right after its own cover page, in their
\* original order; this holds after every splice, so no later splice puts
\* pages between a cover page and its attachment or inside an attachment.
C21_AttachmentFollowsOwnCover ==
  Splicing =>
    \A n \in CatalogNums(catalog) :
      ContentIndices(merged_pdf, n) # {} =>
        /\ CoverIndex(merged_pdf, n) >= 0
        /\ Cardinality(ContentIndices(merged_pdf, n)) = FilePages(n)
        /\ CoverIndex(merged_pdf, n) + FilePages(n) < PageCount(merged_pdf)
        /\ \A j \in 1..FilePages(n) :
             PageId(PageAt(merged_pdf, CoverIndex(merged_pdf, n) + j))
               = <<"content", n, j>>

\* the run has ended with two attachments of two pages or more spliced in,
\* the later of them after the earlier one was in place
C21_Witness ==
  /\ pc = "done"
  /\ \E a, b \in CatalogNums(catalog) :
       /\ CoverIndex(merged_pdf, a) < CoverIndex(merged_pdf, b)
       /\ Cardinality(ContentIndices(merged_pdf, a)) >= 2
       /\ Cardinality(ContentIndices(merged_pdf, b)) >= 2

\* the links of page p that search_for placed on the row of number n
SynthesizedOnRow(p, n) ==
  {g \in BagToSet(p.links) : g.kind = "goto" /\ g.rect = Rect(n, "search")}

\* the row of number n on page p had no link object before the pass
RowHadNoLink(p, n) == \A l \in BagToSet(p.links) : l.rect.row # n

\* C22: after fix_links has run, every TOC row that names an attachment with
\* a recorded position and that had no link object carries a synthesized link
\* on its own "Attachment <number>" text, and every link synthesized on that
\* row leads to the index that the attachment's cover page has in the merged
\* document.
C22_SynthesizedLinkOnOwnRow ==
  pc = "save" =>
    \A i \in 1..Len(toc_pdf) :
      toc_pdf[i].kind = "toc" =>
        \A r \in 1..Len(toc_pdf[i].rows) :
          LET n == toc_pdf[i].rows[r]
              p == PageAt(merged_pdf, page_mapping[i - 1])
          IN  (n \in DOMAIN bookmark_positions /\ RowHadNoLink(toc_pdf[i], n)) =>
                /\ SynthesizedOnRow(p, n) # {}
                /\ \A g \in SynthesizedOnRow(p, n) : g.page = CoverIndex(merged_pdf, n)

\* the lowest of a non-empty set of page indices
Lowest(S) == CHOOSE x \in S : \A y \in S : x <= y

\* the pages whose text the direct scan of create_bookmarks takes for the
\* cover page of number n
ScanMatches(doc, n) ==
  {i \in 2..(PageCount(doc) - 1) :
     /\ HasAttachmentWord(PageAt(doc, i))
     /\ HasPageSpace(PageAt(doc, i))
     /\ FirstAttachmentToken(PageAt(doc, i)) = n}

\* C23: cover-page resolution is first-match-wins: of several pages that
\* match the cover-page pattern of one attachment number, the page recorded
\* for the number is the one with the lowest index, both in
\* locate_cover_pages and in the scan of create_bookmarks.
C23_FirstCoverMatchWins ==
  /\ pc # "start" =>
       \A n \in DOMAIN cover_page_indices :
         cover_page_indices[n] = Lowest(CoverMatches(toc_pdf, n, titlePages > 0))
  /\ pc \in {"check", "done"} =>
       \A k \in 1..Len(outline) :
         (outline[k].num # NoNum /\ ScanMatches(merged_pdf, outline[k].num) # {}) =>
           outline[k].page = Lowest(ScanMatches(merged_pdf, outline[k].num)) + 1

\* the file of attachment n is missing or cannot be opened
Skipped(n) ==
  n \in DOMAIN attachment_map /\ attachment_map[n].file \in {"missing", "unreadable"}

\* C24: when the file of an attachment is missing or cannot be opened, that
\* step of insert_attachments leaves the merged page sequence, page_mapping
\* and the recorded positions of all other attachments as they were; the
\* cover page stays without content after it, and every later attachment is
\* still spliced directly after its own cover page.
C24_SkippedFileChangesNothing ==
  /\ [][(pc = "splice" /\ todo # <<>> /\ Skipped(Head(todo))) =>
          /\ merged_pdf' = merged_pdf
          /\ page_mapping' = page_mapping
          /\ \A a \in DOMAIN bookmark_positions \ {Head(todo)} :
               /\ a \in DOMAIN bookmark_positions'
               /\ bookmark_positions'[a] = bookmark_positions[a]]_vars
  /\ [](Splicing =>
          \A n \in DOMAIN attachment_map :
            /\ Skipped(n) => ContentIndices(merged_pdf, n) = {}
            /\ (n \in DOMAIN cover_page_indices /\ attachment_map[n].file = "ok"
                  /\ n \notin SeqToSet(todo) /\ pc # "copy") =>
                 ContentIndices(merged_pdf, n) =
                   (CoverIndex(merged_pdf, n) + 1)
                     ..(CoverIndex(merged_pdf, n) + attachment_map[n].pages))

\* the run has ended; an attachment whose file was skipped has its cover
\* page orphaned, and an attachment behind it was spliced in
C24_Witness ==
  /\ pc = "done"
  /\ \E a, b \in DOMAIN cover_page_indices :
       /\ Skipped(a)
       /\ CoverIndex(merged_pdf, a) < CoverIndex(merged_pdf, b)
       /\ ContentIndices(merged_pdf, a) = {}
       /\ ContentIndices(merged_pdf, b) # {}

\* the entries of an outline for attachment number n
EntriesFor(o, n) == {k \in 1..Len(o) : o[k].num = n}

\* C25: after generate_toc_pdf has returned, the document at OUTPUT_PDF
\* carries both rewrites, whether or not the last link pass fixed a link:
\* no '#cover-<n>' link of a located cover page is left unrewritten, and its
\* outline has one entry for every located attachment cover page.
C25_OutputCarriesLinksAndOutline ==
  gen_pc = "generated" =>
    \A located \in {map_cover_pages(output_pdf.pages)} :
      /\ \A k \in 1..Len(output_pdf.pages) :
           \A l \in BagToSet(output_pdf.pages[k].links) :
             ~(IsCoverUri(l) /\ l.id \in DOMAIN located)
      /\ \A n \in DOMAIN located :
           Cardinality(EntriesFor(output_pdf.toc, n)) = 1

\* C26: the page-counting formulas agree: for every list of attachments and
\* every title/foreword configuration calculate_page_map and the inline page
\* map of generate_toc_pdf use the same estimate of the TOC pages and give
\* every attachment the same estimated page.
C26_PageFormulasAgree ==
  gen_pc = "html" =>
    /\ estimate.toc_pages = inline_estimate.toc_pages
    /\ estimate.page_map = inline_estimate.page_map

\* the number of GOTO links of a document
GotoLinks(doc) ==
  LET n(j) == BagSum(doc[j].links, {l \in BagToSet(doc[j].links) : l.kind = "goto"})
      total[k \in 0..Len(doc)] == IF k = 0 THEN 0 ELSE total[k - 1] + n(k)
  IN  total[Len(doc)]

\* a step in which merge_pdfs has called fix_links
LinkPass ==
  \/ pc = "splice" /\ pc' = "save"
  \/ pc = "check" /\ pc' = "done" /\ LinksMissing(merged_pdf, bookmark_positions)
  \/ pc = "done" /\ pc' = "patched_again"

\* C27: fix_links leaves a '#cover-<n>' link whose n has no recorded position
\* exactly as it was, and it never modifies a link that is not a '#cover-'
\* link: every such link is on its page as often as before, and the count
\* fix_links returns is the number of GOTO links it added, so that no link
\* left alone is counted.
C27_UnresolvedLinksLeftAlone ==
  [][LinkPass =>
       /\ PageCount(merged_pdf') = PageCount(merged_pdf)
       /\ \A j \in 1..PageCount(merged_pdf) :
            \A l \in BagToSet(merged_pdf[j].links) :
              l \notin Fixable(merged_pdf[j].links, bookmark_positions) =>
                /\ CopiesIn(l, merged_pdf'[j].links) >= CopiesIn(l, merged_pdf[j].links)
                /\ l.kind = "uri" =>
                     CopiesIn(l, merged_pdf'[j].links) = CopiesIn(l, merged_pdf[j].links)
       /\ links_fixed' = GotoLinks(merged_pdf') - GotoLinks(merged_pdf)]_vars

\* fix_links has run over a document with a '#cover-' link without a
\* recorded position and a link of another kind, and it fixed other links
C27_Witness ==
  /\ pc = "save"
  /\ links_fixed > 0
  /\ \E j \in 1..PageCount(merged_pdf) :
       \E l \in BagToSet(merged_pdf[j].links) :
         IsCoverUri(l) /\ l.id \notin DOMAIN bookmark_positions
  /\ \E j \in 1..PageCount(merged_pdf) :
       \E l \in BagToSet(merged_pdf[j].links) : l.kind = "uri" /\ ~IsCoverUri(l)

\* the indices that the cover pages have in the TOC document
TocPdfCovers == {i \in 0..(PageCount(toc_pdf) - 1) : PageAt(toc_pdf, i).kind = "cover"}

\* C28: splicing never moves front matter: after any sequence of splices
\* every page of the TOC document at or before its first cover page is at
\* the index it had, in page_mapping and in the merged document, so every
\* index that locate_toc_page found is the index of that TOC page in the
\* merged document that create_bookmarks is given.
C28_FrontMatterKeepsItsIndex ==
  Splicing =>
    /\ \A i \in 0..(PageCount(toc_pdf) - 1) :
         (\A c \in TocPdfCovers : i <= c) =>
           /\ page_mapping[i] = i
           /\ PageId(PageAt(merged_pdf, i)) = PageId(PageAt(toc_pdf, i))
    /\ \A k \in 1..Len(toc_page_indices) :
         /\ PageAt(merged_pdf, toc_page_indices[k]).kind = "toc"
         /\ PageId(PageAt(merged_pdf, toc_page_indices[k])) =
              PageId(PageAt(toc_pdf, toc_page_indices[k]))

\* two attachments are spliced behind a title page and a two-page TOC, and
\* create_bookmarks is about to use the indices of the TOC pages
C28_Witness ==
  /\ pc = "save"
  /\ titlePages > 0
  /\ Len(toc_page_indices) = 2
  /\ Cardinality({n \in DOMAIN cover_page_indices :
                    ContentIndices(merged_pdf, n) # {}}) >= 2
  /\ PageCount(merged_pdf) > PageCount(toc_pdf) + 1

\* C29: the result of assembly does not depend on the order of the splices:
\* for the located cover pages of every run, splicing the attachments in any
\* order gives the page sequence, the page_mapping and the bookmark_positions
\* that insert_attachments has produced by splicing in ascending order.
C29_SpliceOrderIrrelevant ==
  pc = "splice" /\ todo = <<>> =>
    LET nums == DOMAIN cover_page_indices
        orders == {o \in [1..Cardinality(nums) -> nums] :
                     \A i, j \in 1..Cardinality(nums) : o[i] = o[j] => i = j}
    IN  \A o \in orders :
          \E st \in {SpliceAll(CopiedToc(toc_pdf), attachment_map,
                               cover_page_indices, o)} :
            /\ st.merged_pdf = merged_pdf
            /\ st.page_mapping = page_mapping
            /\ st.bookmark_positions = bookmark_positions

\* at least two attachments are spliced, one of them with more than one
\* page, and a further attachment whose file cannot be read is only recorded
C29_Witness ==
  /\ pc = "splice" /\ todo = <<>>
  /\ Cardinality({n \in DOMAIN cover_page_indices :
                    ContentIndices(merged_pdf, n) # {}}) >= 2
  /\ \E n \in DOMAIN cover_page_indices : Cardinality(ContentIndices(merged_pdf, n)) >= 2
  /\ \E n \in DOMAIN bookmark_positions : ContentIndices(merged_pdf, n) = {}

\* C30: every target written into the final document is a page that exists:
\* each GOTO link of the merged document and of the generator's output has a
\* target t with 0 <= t < page count, and each outline entry designates a
\* page of its document (a page number from 1 on in the list of
\* pdf_merger.create_bookmarks, a page index from 0 on in the lists of the
\* legacy script and of toc_generator.create_bookmarks).
C30_EveryTargetExists ==
  LET inRange(doc) ==
        \A j \in 1..PageCount(doc) :
          \A l \in BagToSet(doc[j].links) :
            l.kind = "goto" => 0 <= l.page /\ l.page < PageCount(doc)
  IN  /\ inRange(merged_pdf)
      /\ \A k \in 1..Len(outline) :
           IF pc = "legacy_done"
           THEN 0 <= outline[k].page /\ outline[k].page < PageCount(merged_pdf)
           ELSE 1 <= outline[k].page /\ outline[k].page <= PageCount(merged_pdf)
      /\ inRange(output_pdf.pages)
      /\ \A k \in 1..Len(output_pdf.toc) :
           /\ 0 <= output_pdf.toc[k].page
           /\ output_pdf.toc[k].page < PageCount(output_pdf.pages)

====
